---- MODULE Spec2Model ----
(***************************************************************************)
(* MagicPhotoBot: the render handler (app.py on_confirm_ok), the entitle-  *)
(* ment ledger it debits (user_credits, FreeUsageLimiter), the dialog      *)
(* state (pending_photo / pending_choice), payments, referrals, the admin  *)
(* test mode and the provider call guarded by the global semaphore         *)
(* (processing.py).                                                        *)
(*                                                                         *)
(* aiogram runs every update as its own asyncio task, so handlers are      *)
(* atomic between two awaits and interleave at the awaits.  Each action    *)
(* below is the code between two suspension points.  Awaits that only      *)
(* talk to Telegram (edit_text, answer, get_file, send_video,              *)
(* send_message) read and write none of the state below; consecutive ones  *)
(* share one position of the handler and the input of the step says which  *)
(* of them raised.                                                         *)
(*                                                                         *)
(* Spec follows the provider call by its outcome only.  SpecRender follows  *)
(* it response by response (HTTP status, body, polled job status and       *)
(* output, exceptions, elapsed poll periods) for the photo and confirm     *)
(* handlers; FairRender adds the scheduling of the event loop.  SpecAdmin  *)
(* is Spec started after the admin's free render.                          *)
(* SpecCancel adds the cancellation of a handler's task to the handlers    *)
(* that render and pay.  SpecReferral runs /start and the payments alone.  *)
(* SpecInvite runs /start alone for more users, enough for a referral      *)
(* reward.                                                                 *)
(* SpecPick applies _pick_video_url to every small output.  SpecStars is    *)
(* payments/stars_v3.py, the SQLite ledger that app.py does not import:    *)
(* its functions have no await and run atomically.                         *)
(*                                                                         *)
(* Not modelled: message texts, keyboards, locales, the preset index and   *)
(* the caption (they only select the prompt string), awaiting_support      *)
(* (the support dialog flag, read by on_text only).                        *)
(***************************************************************************)
EXTENDS Integers, Sequences, FiniteSets, TLC

\* ------------------------------------------------------------- bounds
MaxTasks == 2
MaxUpdates == 4
\* poll periods are counted up to MaxElapsed; beyond it the count stays there
MaxElapsed == 3
\* the longest list an output is tried with
MaxItems == 3
\* the days the clock of payments/stars_v3.py runs through
MaxClock == 2
\* the users that follow referral links
MaxGuests == 4

\* -------------------------------------------------- program constants
ADMIN_USER_ID == 1
MAX_FREE_ANIMS_PER_USER == 1
ANIMATE_CONCURRENCY == 1
\* in poll periods (ANIMATE_POLL): one round of the poll loop sleeps one period
ANIMATE_TIMEOUT == 2

\* the admin and one other user
Users == {ADMIN_USER_ID, 2}
\* ids a dict can be keyed by: the users and 0 (a falsy id, as in /start ref_0)
Ids == {0} \cup Users
Tasks == 1..MaxTasks
FileIds == {1, 2}
NoInviter == -1
NoFile == 0

\* title is dropped: (credits, amount_in_stars)
PACKS ==
  [pack_1 |-> [credits |-> 1, amount |-> 60],
   pack_3 |-> [credits |-> 3, amount |-> 150],
   pack_5 |-> [credits |-> 5, amount |-> 300],
   pack_10 |-> [credits |-> 10, amount |-> 500]]

PackKeys == DOMAIN PACKS

VARIABLES
  user_credits,      \* app.user_credits: id -> credits (absent key = 0)
  usage,             \* limiter._usage: a defaultdict(int); DOMAIN usage = its keys
  total,             \* limiter._total
  TEST_MODE,         \* app.TEST_MODE
  pending_photo,     \* app.pending_photo: user -> file_id, NoFile when absent
  pending_choice,    \* app.pending_choice: user -> "none" | "preset" | "caption"
  ref_inviter,       \* app.ref_inviter: invited -> inviter, NoInviter when absent
  ref_count,         \* app.ref_count
  ref_stars_balance, \* app.ref_stars_balance
  pack_stats,        \* app.pack_stats
  gen_success,       \* app.gen_success
  gen_fail,          \* app.gen_fail
  configured,        \* REPLICATE_API_TOKEN and REPLICATE_MODEL are both set
  sem_value,         \* processing._SEM: free permits
  sem_waiters,       \* processing._SEM: FIFO of suspended acquirers
  tmp_files,         \* file ids f for which DOWNLOAD_TMP_DIR/anim_<f>.mp4 exists
  tasks,             \* the running on_confirm_ok handlers: position and locals
  charged,           \* history: what each handler has debited so far
  updates,           \* the number of Telegram updates handled so far
  unfunded,          \* history: the handlers that started for an exhausted user
  calls,             \* what each running animate_photo_via_replicate call sent and got
  db_users,          \* payments/stars_v3.py: the rows of table users, by user_id
  clock,             \* int(time.time()), in days
  frame              \* the last direct call of a function: name, arguments, result

ledger == <<user_credits, usage, total>>
session == <<pending_photo, pending_choice>>
referral == <<ref_inviter, ref_count, ref_stars_balance>>
sem == <<sem_value, sem_waiters>>
program == <<user_credits, usage, total, TEST_MODE, pending_photo, pending_choice,
             ref_inviter, ref_count, ref_stars_balance, pack_stats, gen_success,
             gen_fail, configured, sem_value, sem_waiters, tmp_files, tasks, charged>>
\* state of code the handlers of app.py do not reach
standalone == <<db_users, clock, frame>>
vars == <<program, updates, unfunded, calls, standalone>>

\* the dispatcher hands one more update to its handler
received == updates < MaxUpdates /\ updates' = updates + 1

IdleTask == [pc |-> "idle", uid |-> 0, had_paid |-> FALSE, file_id |-> NoFile]
NoCharge == [paid |-> 0, free |-> 0]

\* JSON null, and a call that has sent and received nothing yet
Null == [type |-> "null"]
NoCall == [code |-> "none", url |-> <<>>, fields |-> <<>>, posts |-> 0,
           status |-> 0, get_url |-> FALSE, elapsed |-> 0, job |-> "none",
           out |-> Null]

\* nothing was called directly yet
NoFrame == [fn |-> "none", arg |-> Null, ret |-> Null]

Init ==
  /\ user_credits = [i \in Ids |-> 0]
  /\ usage = [i \in {} |-> 0]
  /\ total = 0
  /\ TEST_MODE = FALSE
  /\ pending_photo = [u \in Users |-> NoFile]
  /\ pending_choice = [u \in Users |-> "none"]
  /\ ref_inviter = [u \in Users |-> NoInviter]
  /\ ref_count = [i \in Ids |-> 0]
  /\ ref_stars_balance = [i \in Ids |-> 0]
  /\ pack_stats = [k \in PackKeys |-> 0]
  /\ gen_success = 0
  /\ gen_fail = 0
  /\ configured = TRUE
  /\ sem_value = ANIMATE_CONCURRENCY
  /\ sem_waiters = <<>>
  /\ tmp_files = {}
  /\ tasks = [t \in Tasks |-> IdleTask]
  /\ charged = [t \in Tasks |-> NoCharge]
  /\ updates = 0
  /\ unfunded = {}
  /\ calls = [t \in Tasks |-> NoCall]
  /\ db_users = [i \in {} |-> 0]
  /\ clock = 0
  /\ frame = NoFrame

\* app.py, limiter.py and processing.py as they are once imported
AppStart ==
  /\ user_credits = [i \in Ids |-> 0]
  /\ usage = [i \in {} |-> 0]
  /\ total = 0
  /\ TEST_MODE = FALSE
  /\ pending_photo = [u \in Users |-> NoFile]
  /\ pending_choice = [u \in Users |-> "none"]
  /\ ref_inviter = [u \in Users |-> NoInviter]
  /\ ref_count = [i \in Ids |-> 0]
  /\ ref_stars_balance = [i \in Ids |-> 0]
  /\ pack_stats = [k \in PackKeys |-> 0]
  /\ gen_success = 0
  /\ gen_fail = 0
  /\ configured = TRUE
  /\ sem_value = ANIMATE_CONCURRENCY
  /\ sem_waiters = <<>>
  /\ tmp_files = {}
  /\ tasks = [t \in Tasks |-> IdleTask]
  /\ charged = [t \in Tasks |-> NoCharge]
  /\ updates = 0
  /\ unfunded = {}
  /\ calls = [t \in Tasks |-> NoCall]

\* ------------------------------------------------------------ limiter

\* self._usage[user_id] on a defaultdict(int): reading creates the key with 0
usage_touch(user_id) ==
  IF user_id \in DOMAIN usage THEN usage ELSE usage @@ (user_id :> 0)

\* the count a dict holds for a user, 0 when the key is absent
used_count(us, user_id) == IF user_id \in DOMAIN us THEN us[user_id] ELSE 0

\* mutant: the comparison lets one more use through
can_use_le(user_id) == used_count(usage, user_id) <= MAX_FREE_ANIMS_PER_USER

can_use(user_id) == used_count(usage, user_id) < MAX_FREE_ANIMS_PER_USER

\* mutant: the check itself counts a use
usage_after_can_use_counting(user_id) ==
  [usage_touch(user_id) EXCEPT ![user_id] = @ + 1]

\* limiter._usage after can_use(user_id)
usage_after_can_use(user_id) == usage_touch(user_id)

\* limiter._usage after mark_used(user_id)
usage_after_mark_used(user_id) ==
  [usage_touch(user_id) EXCEPT ![user_id] = @ + 1]

\* ------------------------------------------------- admin / test mode

\* mutant: test mode exempts every user, not only the admin
test_exempt_any(uid) == TEST_MODE

\* mutant: test mode exempts nobody
test_exempt_never(uid) == FALSE

\* on_photo line 913 and on_confirm_ok line 1128: TEST_MODE and is_admin
test_exempt(uid) == TEST_MODE /\ uid = ADMIN_USER_ID

\* on_photo lines 913-914, the condition under which a photo is turned away:
\* no credits, free quota used up, not the admin in test mode
Exhausted(u) ==
  /\ user_credits[u] = 0
  /\ used_count(usage, u) >= MAX_FREE_ANIMS_PER_USER
  /\ ~(TEST_MODE /\ u = ADMIN_USER_ID)

\* on_admin (/admin): another user is turned away, the admin gets the summary;
\* either way nothing is written
on_admin(uid) ==
  /\ UNCHANGED program
  /\ received
  /\ UNCHANGED <<unfunded, calls, standalone>>

\* mutant: the callback does not look at who pressed the button
on_admin_action_unguarded(uid, action) ==
  /\ TEST_MODE' = IF action = "test_toggle" THEN ~TEST_MODE ELSE TEST_MODE
  /\ UNCHANGED <<ledger, session, referral, pack_stats, gen_success, gen_fail,
                 configured, sem, tmp_files, tasks, charged>>
  /\ received
  /\ UNCHANGED <<unfunded, calls, standalone>>

\* on_admin_action: only the admin gets past the guard; stats and users only
\* redraw the panel, test_toggle flips TEST_MODE
on_admin_action(uid, action) ==
  /\ TEST_MODE' = IF uid = ADMIN_USER_ID /\ action = "test_toggle"
                  THEN ~TEST_MODE ELSE TEST_MODE
  /\ UNCHANGED <<ledger, session, referral, pack_stats, gen_success, gen_fail,
                 configured, sem, tmp_files, tasks, charged>>
  /\ received
  /\ UNCHANGED <<unfunded, calls, standalone>>

\* ----------------------------------------------------------- referral

\* mutant: the reward comes with the first of every three invited users
register_referral_early(new_user_id, inviter_id) ==
  IF new_user_id = inviter_id \/ ref_inviter[new_user_id] # NoInviter
  THEN <<ref_inviter, ref_count, user_credits>>
  ELSE LET count == ref_count[inviter_id] + 1
           earned_free == IF count % 3 = 1 THEN 1 ELSE 0
       IN <<[ref_inviter EXCEPT ![new_user_id] = inviter_id],
            [ref_count EXCEPT ![inviter_id] = count],
            [user_credits EXCEPT ![inviter_id] = @ + earned_free]>>

\* mutant: a user who is bound already is bound again
register_referral_rebinding(new_user_id, inviter_id) ==
  IF new_user_id = inviter_id
  THEN <<ref_inviter, ref_count, user_credits>>
  ELSE LET count == ref_count[inviter_id] + 1
           earned_free == IF count % 3 = 0 THEN 1 ELSE 0
       IN <<[ref_inviter EXCEPT ![new_user_id] = inviter_id],
            [ref_count EXCEPT ![inviter_id] = count],
            [user_credits EXCEPT ![inviter_id] = @ + earned_free]>>

\* register_referral: the state it leaves, as <<ref_inviter, ref_count, user_credits>>
register_referral(new_user_id, inviter_id) ==
  IF new_user_id = inviter_id \/ ref_inviter[new_user_id] # NoInviter
  THEN <<ref_inviter, ref_count, user_credits>>
  ELSE LET count == ref_count[inviter_id] + 1
           earned_free == IF count % 3 = 0 THEN 1 ELSE 0
       IN <<[ref_inviter EXCEPT ![new_user_id] = inviter_id],
            [ref_count EXCEPT ![inviter_id] = count],
            [user_credits EXCEPT ![inviter_id] = @ + earned_free]>>

\* on_start with the payload of /start: "ref_<inviter_id>" registers the
\* referral, any other payload does not (inviter_id = NoInviter here)
on_start(uid, inviter_id) ==
  /\ LET after == IF inviter_id # NoInviter
                  THEN register_referral(uid, inviter_id)
                  ELSE <<ref_inviter, ref_count, user_credits>>
     IN /\ ref_inviter' = after[1]
        /\ ref_count' = after[2]
        /\ user_credits' = after[3]
  /\ UNCHANGED <<usage, total, TEST_MODE, session, ref_stars_balance, pack_stats,
                 gen_success, gen_fail, configured, sem, tmp_files, tasks, charged>>
  /\ received
  /\ UNCHANGED <<unfunded, calls, standalone>>

\* ----------------------------------------------------------- payments

RECURSIVE SumOver(_, _)
SumOver(f, S) ==
  IF S = {} THEN 0
  ELSE LET x == CHOOSE y \in S : TRUE IN f[x] + SumOver(f, S \ {x})

\* int(total_stars * 0.05)
bonus_of(total_stars) == (total_stars * 5) \div 100

\* the while loop of on_payment: every full 60 Stars become 1 credit;
\* <<balance left, credits gained>>
RECURSIVE convert_stars(_, _)
convert_stars(balance, gained) ==
  IF balance >= 60 THEN convert_stars(balance - 60, gained + 1)
  ELSE <<balance, gained>>

\* mutant: a payload that names no pack is paid out as one credit
on_payment_any_payload(uid, payload, total_stars) ==
  /\ IF payload \notin PackKeys
     THEN /\ user_credits' = [user_credits EXCEPT ![uid] = @ + 1]
          /\ UNCHANGED <<usage, total, TEST_MODE, session, referral, pack_stats,
                         gen_success, gen_fail, configured, sem, tmp_files, tasks,
                         charged>>
     ELSE
       /\ pack_stats' = [pack_stats EXCEPT ![payload] = @ + 1]
       /\ LET paid == [user_credits EXCEPT ![uid] = @ + PACKS[payload].credits]
              inviter_id == ref_inviter[uid]
              bonus_stars == bonus_of(total_stars)
          IN IF inviter_id # NoInviter /\ inviter_id # 0 /\ bonus_stars > 0
             THEN LET conv == convert_stars(
                                ref_stars_balance[inviter_id] + bonus_stars, 0)
                  IN /\ ref_stars_balance' =
                          [ref_stars_balance EXCEPT ![inviter_id] = conv[1]]
                     /\ user_credits' = [paid EXCEPT ![inviter_id] = @ + conv[2]]
             ELSE /\ user_credits' = paid
                  /\ UNCHANGED ref_stars_balance
       /\ UNCHANGED <<usage, total, TEST_MODE, session, ref_inviter, ref_count,
                      gen_success, gen_fail, configured, sem, tmp_files, tasks,
                      charged>>
  /\ received
  /\ UNCHANGED <<unfunded, calls, standalone>>

\* on_payment: payload is sp.invoice_payload, total_stars is sp.total_amount
on_payment(uid, payload, total_stars) ==
  /\ IF payload \notin PackKeys
     THEN UNCHANGED program
     ELSE
       /\ pack_stats' = [pack_stats EXCEPT ![payload] = @ + 1]
       /\ LET paid == [user_credits EXCEPT ![uid] = @ + PACKS[payload].credits]
              inviter_id == ref_inviter[uid]
              bonus_stars == bonus_of(total_stars)
          IN IF inviter_id # NoInviter /\ inviter_id # 0 /\ bonus_stars > 0
             THEN LET conv == convert_stars(
                                ref_stars_balance[inviter_id] + bonus_stars, 0)
                  IN /\ ref_stars_balance' =
                          [ref_stars_balance EXCEPT ![inviter_id] = conv[1]]
                     /\ user_credits' = [paid EXCEPT ![inviter_id] = @ + conv[2]]
             ELSE /\ user_credits' = paid
                  /\ UNCHANGED ref_stars_balance
       /\ UNCHANGED <<usage, total, TEST_MODE, session, ref_inviter, ref_count,
                      gen_success, gen_fail, configured, sem, tmp_files, tasks,
                      charged>>
  /\ received
  /\ UNCHANGED <<unfunded, calls, standalone>>

\* ------------------------------------------------------------- dialog

\* on_photo: the limit check, then the new photo replaces the pending one and
\* discards the pending choice; an old-looking photo preselects preset 4
on_photo(uid, file_id, is_old_like) ==
  /\ LET checked == ~test_exempt(uid) /\ user_credits[uid] <= 0
         rejected == checked /\ ~can_use(uid)
     IN /\ usage' = IF checked THEN usage_after_can_use(uid) ELSE usage
        /\ IF rejected
           THEN UNCHANGED session
           ELSE /\ pending_photo' = [pending_photo EXCEPT ![uid] = file_id]
                /\ pending_choice' = [pending_choice EXCEPT ![uid] =
                                        IF is_old_like THEN "preset" ELSE "none"]
  /\ UNCHANGED <<user_credits, total, TEST_MODE, referral, pack_stats, gen_success,
                 gen_fail, configured, sem, tmp_files, tasks, charged>>
  /\ received
  /\ UNCHANGED <<unfunded, calls, standalone>>

\* mutant: cancel drops the photo and keeps the choice
on_preset_cancel_photo_only(uid, data) ==
  /\ IF pending_photo[uid] = NoFile
     THEN UNCHANGED session
     ELSE IF data = "cancel"
     THEN /\ pending_photo' = [pending_photo EXCEPT ![uid] = NoFile]
          /\ UNCHANGED pending_choice
     ELSE IF data = "usecap"
     THEN /\ pending_choice' = [pending_choice EXCEPT ![uid] = "caption"]
          /\ UNCHANGED pending_photo
     ELSE IF data = "preset"
     THEN /\ pending_choice' = [pending_choice EXCEPT ![uid] = "preset"]
          /\ UNCHANGED pending_photo
     ELSE UNCHANGED session
  /\ UNCHANGED <<ledger, TEST_MODE, referral, pack_stats, gen_success, gen_fail,
                 configured, sem, tmp_files, tasks, charged>>
  /\ received
  /\ UNCHANGED <<unfunded, calls, standalone>>

\* on_preset: data is the text after "preset:"
on_preset(uid, data) ==
  /\ IF pending_photo[uid] = NoFile
     THEN UNCHANGED session
     ELSE IF data = "cancel"
     THEN /\ pending_photo' = [pending_photo EXCEPT ![uid] = NoFile]
          /\ pending_choice' = [pending_choice EXCEPT ![uid] = "none"]
     ELSE IF data = "usecap"
     THEN /\ pending_choice' = [pending_choice EXCEPT ![uid] = "caption"]
          /\ UNCHANGED pending_photo
     ELSE IF data = "preset"
     THEN /\ pending_choice' = [pending_choice EXCEPT ![uid] = "preset"]
          /\ UNCHANGED pending_photo
     ELSE UNCHANGED session
  /\ UNCHANGED <<ledger, TEST_MODE, referral, pack_stats, gen_success, gen_fail,
                 configured, sem, tmp_files, tasks, charged>>
  /\ received
  /\ UNCHANGED <<unfunded, calls, standalone>>

on_confirm_back(uid) ==
  /\ pending_choice' = IF pending_photo[uid] = NoFile THEN pending_choice
                       ELSE [pending_choice EXCEPT ![uid] = "none"]
  /\ UNCHANGED <<pending_photo, ledger, TEST_MODE, referral, pack_stats, gen_success,
                 gen_fail, configured, sem, tmp_files, tasks, charged>>
  /\ received
  /\ UNCHANGED <<unfunded, calls, standalone>>

\* ------------------------------------------------ render: on_confirm_ok

LocalsOf(t) == tasks[t]

\* mutant: the debit trusts the balance seen at the start
pays_credit_unchecked(uid, had_paid) == had_paid

\* line 1129: the credit is taken only when the handler saw credits at its
\* start and the user still has some now
pays_credit(uid, had_paid) == had_paid /\ user_credits[uid] > 0

\* lines 1128-1132, user_credits after a delivered render
credits_after_success(uid, had_paid) ==
  IF ~test_exempt(uid) /\ pays_credit(uid, had_paid)
  THEN [user_credits EXCEPT ![uid] = @ - 1]
  ELSE user_credits

\* mutant: a free use is marked even when a credit was taken
usage_after_success_always(uid, had_paid) ==
  IF ~test_exempt(uid) THEN usage_after_mark_used(uid) ELSE usage

\* lines 1128-1132, limiter._usage after a delivered render
usage_after_success(uid, had_paid) ==
  IF ~test_exempt(uid) /\ ~pays_credit(uid, had_paid)
  THEN usage_after_mark_used(uid)
  ELSE usage

\* lines 1128-1132, limiter._total after a delivered render
total_after_success(uid, had_paid) ==
  IF ~test_exempt(uid) /\ ~pays_credit(uid, had_paid) THEN total + 1 ELSE total

\* history of the debits a step of handler t makes, read off the ledger itself
Observe(t) ==
  charged' = [charged EXCEPT ![t] =
     [paid |-> @.paid + SumOver(user_credits, Ids) - SumOver(user_credits', Ids),
      free |-> @.free + SumOver(usage', DOMAIN usage') - SumOver(usage, DOMAIN usage)]]

Finished(t, pc) == [pc |-> pc, uid |-> tasks[t].uid, had_paid |-> tasks[t].had_paid,
                    file_id |-> NoFile]

\* asyncio.Semaphore.release(): the permit goes to the first waiter, which
\* resumes at the POST; without waiters the counter grows
\* mutant: the permit is not given back
release_value_leak == sem_value

release_value == IF sem_waiters = <<>> THEN sem_value + 1 ELSE sem_value
release_waiters == IF sem_waiters = <<>> THEN sem_waiters ELSE Tail(sem_waiters)
release_tasks(ts) ==
  IF sem_waiters = <<>> THEN ts ELSE [ts EXCEPT ![Head(sem_waiters)].pc = "submit"]

\* lines 1071-1080: the handler starts when a photo and a choice are pending
\* and takes its locals; it then awaits edit_text and answer
on_confirm_ok(uid) ==
  /\ IF pending_photo[uid] = NoFile \/ pending_choice[uid] = "none"
     THEN UNCHANGED <<program, unfunded>>
     ELSE
       /\ \E t \in Tasks :
            /\ tasks[t].pc = "idle"
            /\ \A s \in Tasks : s < t => tasks[s].pc # "idle"
            /\ tasks' = [tasks EXCEPT ![t] =
                 [pc |-> "status", uid |-> uid, had_paid |-> user_credits[uid] > 0,
                  file_id |-> pending_photo[uid]]]
            /\ unfunded' = IF Exhausted(uid) THEN unfunded \cup {t} ELSE unfunded
       /\ UNCHANGED <<ledger, TEST_MODE, session, referral, pack_stats, gen_success,
                      gen_fail, configured, sem, tmp_files, charged>>
  /\ received
  /\ UNCHANGED <<calls, standalone>>

\* mutant: the except branch marks a free use
except_handler_charging(t) ==
  /\ gen_fail' = gen_fail + 1
  /\ usage' = usage_after_mark_used(tasks[t].uid)
  /\ total' = total + 1
  /\ UNCHANGED <<user_credits, gen_success>>

\* lines 1142-1145: the except branch counts a failure and reports it
except_handler(t) ==
  /\ gen_fail' = gen_fail + 1
  /\ UNCHANGED <<ledger, gen_success>>

\* lines 1103-1106: a result that is not ok counts a failure; edit_text follows
result_not_ok(t) ==
  /\ gen_fail' = gen_fail + 1
  /\ UNCHANGED <<ledger, gen_success>>

\* lines 1090-1099 and processing.py 41-57: edit_text and answer (outside the
\* try), get_file, then animate_photo_via_replicate up to its first await
after_status(t, raised) ==
  /\ tasks[t].pc = "status"
  /\ IF raised = "status"
     THEN /\ tasks' = [tasks EXCEPT ![t] = Finished(t, "aborted")]
          /\ UNCHANGED <<ledger, gen_success, gen_fail, sem>>
     ELSE IF raised = "get_file"
     THEN /\ except_handler(t)
          /\ tasks' = [tasks EXCEPT ![t] = Finished(t, "failed")]
          /\ UNCHANGED sem
     ELSE IF ~configured
     THEN /\ result_not_ok(t)
          /\ tasks' = [tasks EXCEPT ![t].pc = "notify_fail"]
          /\ UNCHANGED sem
     ELSE IF sem_value > 0 /\ sem_waiters = <<>>
     THEN /\ sem_value' = sem_value - 1
          /\ tasks' = [tasks EXCEPT ![t].pc = "submit"]
          /\ UNCHANGED <<ledger, gen_success, gen_fail, sem_waiters>>
     ELSE /\ sem_waiters' = Append(sem_waiters, t)
          /\ tasks' = [tasks EXCEPT ![t].pc = "sem_wait"]
          /\ UNCHANGED <<ledger, gen_success, gen_fail, sem_value>>
  /\ Observe(t)
  /\ UNCHANGED <<updates, unfunded, calls, standalone>>
  /\ UNCHANGED <<TEST_MODE, session, referral, pack_stats, configured, tmp_files>>

\* processing.py 62-79: the POST that creates the prediction
submit(t, resp) ==
  /\ tasks[t].pc = "submit"
  /\ IF resp = "created"
     THEN /\ tasks' = [tasks EXCEPT ![t].pc = "poll"]
          /\ UNCHANGED <<ledger, gen_success, gen_fail, sem>>
     ELSE /\ result_not_ok(t)
          /\ sem_value' = release_value
          /\ sem_waiters' = release_waiters
          /\ tasks' = release_tasks([tasks EXCEPT ![t].pc = "notify_fail"])
  /\ Observe(t)
  /\ UNCHANGED <<updates, unfunded, calls, standalone>>
  /\ UNCHANGED <<TEST_MODE, session, referral, pack_stats, configured, tmp_files>>

\* processing.py 82-111 and app.py 1103-1112: one round of the poll loop
poll(t, resp) ==
  /\ tasks[t].pc = "poll"
  /\ IF resp \in {"non_200", "processing"}
     THEN UNCHANGED <<ledger, gen_success, gen_fail, sem, tasks>>
     ELSE IF resp = "succeeded_url"
     THEN /\ gen_success' = gen_success + 1
          /\ sem_value' = release_value
          /\ sem_waiters' = release_waiters
          /\ tasks' = release_tasks([tasks EXCEPT ![t].pc = "download"])
          /\ UNCHANGED <<ledger, gen_fail>>
     ELSE /\ result_not_ok(t)
          /\ sem_value' = release_value
          /\ sem_waiters' = release_waiters
          /\ tasks' = release_tasks([tasks EXCEPT ![t].pc = "notify_fail"])
  /\ Observe(t)
  /\ UNCHANGED <<updates, unfunded, calls, standalone>>
  /\ UNCHANGED <<TEST_MODE, session, referral, pack_stats, configured, tmp_files>>

\* line 1105: edit_text inside the try; when it raises the except branch runs;
\* either way the handler ends and its result dict with it
notify_fail(t, raised) ==
  /\ tasks[t].pc = "notify_fail"
  /\ IF raised
     THEN except_handler(t)
     ELSE UNCHANGED <<ledger, gen_success, gen_fail>>
  /\ tasks' = [tasks EXCEPT ![t] = Finished(t, "failed")]
  /\ calls' = [calls EXCEPT ![t] = NoCall]
  /\ Observe(t)
  /\ UNCHANGED <<updates, unfunded, standalone>>
  /\ UNCHANGED <<TEST_MODE, session, referral, pack_stats, configured, sem, tmp_files>>

\* mutant: the download runs inside `async with _SEM` and ends it
download_in_sem(t, outcome) ==
  /\ tasks[t].pc = "download"
  /\ IF outcome = "ok"
     THEN /\ tmp_files' = tmp_files \cup {tasks[t].file_id}
          /\ tasks' = release_tasks([tasks EXCEPT ![t].pc = "deliver"])
          /\ UNCHANGED <<ledger, gen_success, gen_fail>>
     ELSE /\ except_handler(t)
          /\ tmp_files' = IF outcome = "stream_error"
                          THEN tmp_files \cup {tasks[t].file_id} ELSE tmp_files
          /\ tasks' = release_tasks([tasks EXCEPT ![t] = Finished(t, "failed")])
  /\ sem_value' = release_value
  /\ sem_waiters' = release_waiters
  /\ calls' = [calls EXCEPT ![t] = NoCall]
  /\ Observe(t)
  /\ UNCHANGED <<updates, unfunded, standalone>>
  /\ UNCHANGED <<TEST_MODE, session, referral, pack_stats, configured>>

\* line 1112 and processing.py download_file: raise_for_status comes before
\* open(dst_path, "wb"), streaming after it; result["url"] is not read again
download(t, outcome) ==
  /\ tasks[t].pc = "download"
  /\ IF outcome = "ok"
     THEN /\ tmp_files' = tmp_files \cup {tasks[t].file_id}
          /\ tasks' = [tasks EXCEPT ![t].pc = "deliver"]
          /\ UNCHANGED <<ledger, gen_success, gen_fail>>
     ELSE /\ except_handler(t)
          /\ tmp_files' = IF outcome = "stream_error"
                          THEN tmp_files \cup {tasks[t].file_id} ELSE tmp_files
          /\ tasks' = [tasks EXCEPT ![t] = Finished(t, "failed")]
  /\ calls' = [calls EXCEPT ![t] = NoCall]
  /\ Observe(t)
  /\ UNCHANGED <<updates, unfunded, standalone>>
  /\ UNCHANGED <<TEST_MODE, session, referral, pack_stats, configured, sem>>

\* lines 1114-1140: send_video and send_message, then (without another await)
\* the debit, os.remove and the two pops
deliver(t, raised) ==
  /\ tasks[t].pc = "deliver"
  /\ IF raised
     THEN /\ except_handler(t)
          /\ tasks' = [tasks EXCEPT ![t] = Finished(t, "failed")]
          /\ UNCHANGED <<session, tmp_files>>
     ELSE LET uid == tasks[t].uid
              had_paid == tasks[t].had_paid
          IN /\ user_credits' = credits_after_success(uid, had_paid)
             /\ usage' = usage_after_success(uid, had_paid)
             /\ total' = total_after_success(uid, had_paid)
             /\ tmp_files' = tmp_files \ {tasks[t].file_id}
             /\ pending_photo' = [pending_photo EXCEPT ![uid] = NoFile]
             /\ pending_choice' = [pending_choice EXCEPT ![uid] = "none"]
             /\ tasks' = [tasks EXCEPT ![t] = Finished(t, "done")]
             /\ UNCHANGED <<gen_success, gen_fail>>
  /\ Observe(t)
  /\ UNCHANGED <<updates, unfunded, calls, standalone>>
  /\ UNCHANGED <<TEST_MODE, referral, pack_stats, configured, sem>>

\* ------------------------------------------------------ specification

Next ==
  \/ \E u \in Users, f \in FileIds, o \in BOOLEAN : on_photo(u, f, o)
  \/ \E u \in Users, d \in {"cancel", "usecap", "preset", "0"} : on_preset(u, d)
  \/ \E u \in Users : on_confirm_back(u)
  \/ \E u \in Users : on_confirm_ok(u)
  \/ \E u \in Users, a \in {"stats", "users", "test_toggle"} : on_admin_action(u, a)
  \/ \E u \in Users : on_admin(u)
  \/ \E u \in Users, i \in Users \cup {NoInviter} : on_start(u, i)
  \/ \E u \in Users, k \in {"pack_1", "pack_3"} : on_payment(u, k, PACKS[k].amount)
  \/ \E u \in Users : on_payment(u, "unknown", 60)
  \/ \E t \in Tasks, r \in {"none", "status", "get_file"} : after_status(t, r)
  \/ \E t \in Tasks, r \in {"created", "402", "422", "other", "no_get_url",
                            "timeout", "exception"} : submit(t, r)
  \/ \E t \in Tasks, r \in {"non_200", "processing", "succeeded_url",
                            "succeeded_no_output", "failed", "canceled",
                            "timeout", "exception"} : poll(t, r)
  \/ \E t \in Tasks, r \in BOOLEAN : notify_fail(t, r)
  \/ \E t \in Tasks, o \in {"ok", "http_error", "stream_error"} : download(t, o)
  \/ \E t \in Tasks, r \in BOOLEAN : deliver(t, r)

Spec == Init /\ [][Next]_vars

\* the program after the admin's free render was delivered outside test mode:
\* the handler has returned, its photo and choice are popped, its file removed
InitAdmin ==
  /\ user_credits = [i \in Ids |-> 0]
  /\ usage = (ADMIN_USER_ID :> MAX_FREE_ANIMS_PER_USER)
  /\ total = MAX_FREE_ANIMS_PER_USER
  /\ TEST_MODE = FALSE
  /\ pending_photo = [u \in Users |-> NoFile]
  /\ pending_choice = [u \in Users |-> "none"]
  /\ ref_inviter = [u \in Users |-> NoInviter]
  /\ ref_count = [i \in Ids |-> 0]
  /\ ref_stars_balance = [i \in Ids |-> 0]
  /\ pack_stats = [k \in PackKeys |-> 0]
  /\ gen_success = MAX_FREE_ANIMS_PER_USER
  /\ gen_fail = 0
  /\ configured = TRUE
  /\ sem_value = ANIMATE_CONCURRENCY
  /\ sem_waiters = <<>>
  /\ tmp_files = {}
  /\ tasks = [t \in Tasks |-> IdleTask]
  /\ charged = [t \in Tasks |-> NoCharge]
  /\ updates = 0
  /\ unfunded = {}
  /\ calls = [t \in Tasks |-> NoCall]
  /\ db_users = [i \in {} |-> 0]
  /\ clock = 0
  /\ frame = NoFrame

SpecAdmin == InitAdmin /\ [][Next]_vars

\* ------------------------------------- processing.py, response by response

\* strings are sequences of characters
Mp4Url == <<"a", ".", "m", "p", "4">>
GifUrl == <<"b", ".", "g", "i", "f">>
PngUrl == <<"c", ".", "p", "n", "g">>

\* JSON values as data.get("output") can hold them
Str(s) == [type |-> "str", val |-> s]
Num == [type |-> "num"]
List(items) == [type |-> "list", items |-> items]
Dict(map) == [type |-> "dict", map |-> map]
IsStr(v) == v.type = "str"

\* str.endswith
EndsWith(s, suffix) ==
  /\ Len(s) >= Len(suffix)
  /\ SubSeq(s, Len(s) - Len(suffix) + 1, Len(s)) = suffix

\* dict.get(k)
DictGet(map, k) == IF k \in DOMAIN map THEN map[k] ELSE Null

\* the first element of a list whose flag is set, Null when there is none
FirstThat(items, flags) ==
  IF \E i \in DOMAIN items : flags[i]
  THEN items[CHOOSE i \in DOMAIN items :
               flags[i] /\ \A j \in DOMAIN items : flags[j] => i <= j]
  ELSE Null

Strings(items) == [i \in DOMAIN items |-> IsStr(items[i])]

IsClip(v) == IsStr(v) /\ (EndsWith(v.val, <<".", "m", "p", "4">>)
                          \/ EndsWith(v.val, <<".", "g", "i", "f">>))

Clips(items) == [i \in DOMAIN items |-> IsClip(items[i])]

\* mutant: a dict is searched for any string value
pick_video_url_any(out) ==
  IF out.type = "str" THEN out
  ELSE IF out.type = "list" /\ \E i \in DOMAIN out.items : IsStr(out.items[i])
  THEN IF \E i \in DOMAIN out.items : IsClip(out.items[i])
       THEN FirstThat(out.items, Clips(out.items))
       ELSE FirstThat(out.items, Strings(out.items))
  ELSE IF out.type = "dict" /\ \E k \in DOMAIN out.map : IsStr(out.map[k])
  THEN out.map[CHOOSE k \in DOMAIN out.map : IsStr(out.map[k])]
  ELSE Null

\* mutant: the first string of a list is taken, whatever it ends in
pick_video_url_first(out) ==
  IF out.type = "str" THEN out
  ELSE IF out.type = "list" /\ \E i \in DOMAIN out.items : IsStr(out.items[i])
  THEN FirstThat(out.items, Strings(out.items))
  ELSE IF out.type = "dict"
  THEN LET found == [i \in 1..3 |-> DictGet(out.map, <<"video", "result", "output">>[i])]
       IN FirstThat(found, Strings(found))
  ELSE Null

\* _pick_video_url: a Str value, or Null for None
pick_video_url(out) ==
  IF out.type = "str" THEN out
  ELSE IF out.type = "list" /\ \E i \in DOMAIN out.items : IsStr(out.items[i])
  THEN IF \E i \in DOMAIN out.items : IsClip(out.items[i])
       THEN FirstThat(out.items, Clips(out.items))
       ELSE FirstThat(out.items, Strings(out.items))
  ELSE IF out.type = "dict"
  THEN LET found == [i \in 1..3 |-> DictGet(out.map, <<"video", "result", "output">>[i])]
       IN FirstThat(found, Strings(found))
  ELSE Null

\* `if url:` on the value _pick_video_url returned
Truthy(v) == IsStr(v) /\ v.val # <<>>

\* the words a 422 body is made of; str.lower() word by word
ToLower(w) == IF w = "Image" THEN "image" ELSE IF w = "PROMPT" THEN "prompt" ELSE w
FieldWords ==
  [face_image |-> <<"face_", "image">>, driving_video |-> <<"driving_video">>,
   image |-> <<"image">>, prompt |-> <<"prompt">>]

\* `key in lower`: substring search
Contains(s, sub) ==
  \E i \in 1..(Len(s) - Len(sub) + 1) : SubSeq(s, i, i + Len(sub) - 1) = sub

\* _extract_fields
extract_fields(text) ==
  LET lower == [i \in DOMAIN text |-> ToLower(text[i])]
      Named(key) == Contains(lower, FieldWords[key])
  IN SelectSeq(<<"face_image", "driving_video", "image", "prompt">>, Named)

\* what the provider can make of one request: a response that was received
\* whole, or an exception raised somewhere in the exchange
Response(status, text, get_url) ==
  [kind |-> "response", status |-> status, text |-> text, get_url |-> get_url]
Raised(kind, status) == [kind |-> kind, status |-> status, text |-> <<>>, get_url |-> FALSE]

PostResponses ==
  {Response(st, <<>>, g) : st \in {200, 201}, g \in BOOLEAN}
  \cup {Response(st, <<"no", "credit">>, FALSE) : st \in {401, 402, 403, 500}}
  \cup {Response(422, x, FALSE) :
          x \in {<<>>, <<"bad", "input">>, <<"Image", "is", "required">>,
                 <<"face_", "image", "and", "PROMPT">>}}
  \cup {Raised("TimeoutError", 0), Raised("ClientConnectorError", 0),
        Raised("ClientResponseError", 200)}

Outputs ==
  {Null, Str(<<>>), Str(Mp4Url), List(<<>>), List(<<Num, Null>>),
   List(<<Str(PngUrl), Str(GifUrl)>>),
   Dict([video |-> Num, other |-> Str(Mp4Url)]), Dict([result |-> Str(Mp4Url)])}

Polled(status, job, out) == [kind |-> "response", status |-> status, job |-> job, out |-> out]
PollRaised(kind, status) == [kind |-> kind, status |-> status, job |-> "none", out |-> Null]

GetResponses ==
  {Polled(200, "succeeded", o) : o \in Outputs}
  \cup {Polled(200, j, Null) : j \in {"starting", "processing", "failed", "canceled"}}
  \cup {Polled(500, "none", Null)}
  \cup {PollRaised("TimeoutError", 0), PollRaised("ClientConnectorError", 0),
        PollRaised("ClientResponseError", 200)}

\* lines 101-111: the three except branches
exception_code(e) ==
  IF e.kind = "TimeoutError" THEN "timeout"
  ELSE IF e.kind = "ClientResponseError"
  THEN IF e.status = 401 THEN "replicate_auth" ELSE "replicate_http"
  ELSE "unexpected"

\* mutant: 402 and 422 are not told apart from the other failures
create_code_generic(resp) ==
  IF resp.kind # "response" THEN exception_code(resp)
  ELSE IF resp.status \notin {200, 201} THEN "replicate_create"
  ELSE IF ~resp.get_url THEN "replicate_create"
  ELSE "none"

\* lines 62-79: the code of the dict that is returned after the POST, "none"
\* when the call goes on to poll
create_code(resp) ==
  IF resp.kind # "response" THEN exception_code(resp)
  ELSE IF resp.status = 402 THEN "replicate_402"
  ELSE IF resp.status \notin {200, 201}
  THEN IF resp.status = 422 THEN "replicate_422_fields" ELSE "replicate_create"
  ELSE IF ~resp.get_url THEN "replicate_create"
  ELSE "none"

\* mutant: a canceled job is polled again
poll_code_canceled_goes_on(resp) ==
  IF resp.kind # "response" THEN exception_code(resp)
  ELSE IF resp.status # 200 THEN "none"
  ELSE IF resp.job = "succeeded"
  THEN IF Truthy(pick_video_url(resp.out)) THEN "ok" ELSE "replicate_no_output"
  ELSE IF resp.job = "failed" THEN "replicate_status"
  ELSE "none"

\* lines 84-100: the code of the dict that is returned after one GET, "none"
\* when the loop goes round again
poll_code(resp) ==
  IF resp.kind # "response" THEN exception_code(resp)
  ELSE IF resp.status # 200 THEN "none"
  ELSE IF resp.job = "succeeded"
  THEN IF Truthy(pick_video_url(resp.out)) THEN "ok" ELSE "replicate_no_output"
  ELSE IF resp.job \in {"failed", "canceled"} THEN "replicate_status"
  ELSE "none"

\* mutant: the settings are not looked at
config_missing_never == FALSE

\* line 41
config_missing == ~configured

\* mutant: acquire never waits
sem_locked_never == FALSE

\* asyncio.Semaphore.locked(): no free permit, or somebody is queued already
sem_locked == sem_value = 0 \/ sem_waiters # <<>>

\* app.py 1090-1099 and processing.py 41-57, as after_status, noting the
\* config result
begin_render(t, raised) ==
  /\ tasks[t].pc = "status"
  /\ IF raised = "status"
     THEN /\ tasks' = [tasks EXCEPT ![t] = Finished(t, "aborted")]
          /\ UNCHANGED <<ledger, gen_success, gen_fail, sem, calls>>
     ELSE IF raised = "get_file"
     THEN /\ except_handler(t)
          /\ tasks' = [tasks EXCEPT ![t] = Finished(t, "failed")]
          /\ UNCHANGED <<sem, calls>>
     ELSE IF config_missing
     THEN /\ result_not_ok(t)
          /\ tasks' = [tasks EXCEPT ![t].pc = "notify_fail"]
          /\ calls' = [calls EXCEPT ![t].code = "config"]
          /\ UNCHANGED sem
     ELSE IF ~sem_locked
     THEN /\ sem_value' = sem_value - 1
          /\ tasks' = [tasks EXCEPT ![t].pc = "submit"]
          /\ UNCHANGED <<ledger, gen_success, gen_fail, sem_waiters, calls>>
     ELSE /\ sem_waiters' = Append(sem_waiters, t)
          /\ tasks' = [tasks EXCEPT ![t].pc = "sem_wait"]
          /\ UNCHANGED <<ledger, gen_success, gen_fail, sem_value, calls>>
  /\ Observe(t)
  /\ UNCHANGED <<updates, unfunded, standalone>>
  /\ UNCHANGED <<TEST_MODE, session, referral, pack_stats, configured, tmp_files>>

\* processing.py 62-79 and 101-111: the POST and what is made of its answer
create_prediction(t, resp) ==
  /\ tasks[t].pc = "submit"
  /\ calls' = [calls EXCEPT ![t].posts = @ + 1,
                            ![t].status = IF create_code(resp) = "none"
                                          THEN @ ELSE resp.status,
                            ![t].get_url = /\ resp.kind = "response"
                                           /\ resp.status \in {200, 201}
                                           /\ resp.get_url,
                            ![t].code = create_code(resp),
                            ![t].fields = IF create_code(resp) = "replicate_422_fields"
                                          THEN extract_fields(resp.text) ELSE <<>>]
  /\ IF create_code(resp) = "none"
     THEN /\ tasks' = [tasks EXCEPT ![t].pc = "sleep"]
          /\ UNCHANGED <<ledger, gen_success, gen_fail, sem>>
     ELSE /\ result_not_ok(t)
          /\ sem_value' = release_value
          /\ sem_waiters' = release_waiters
          /\ tasks' = release_tasks([tasks EXCEPT ![t].pc = "notify_fail"])
  /\ Observe(t)
  /\ UNCHANGED <<updates, unfunded, standalone>>
  /\ UNCHANGED <<TEST_MODE, session, referral, pack_stats, configured, tmp_files>>

\* processing.py 83: asyncio.sleep(ANIMATE_POLL), then the GET goes out
poll_sleep(t) ==
  /\ tasks[t].pc = "sleep"
  /\ tasks' = [tasks EXCEPT ![t].pc = "poll"]
  /\ calls' = [calls EXCEPT ![t].elapsed = IF @ < MaxElapsed THEN @ + 1 ELSE @]
  /\ UNCHANGED <<ledger, gen_success, gen_fail, sem>>
  /\ Observe(t)
  /\ UNCHANGED <<updates, unfunded, standalone>>
  /\ UNCHANGED <<TEST_MODE, session, referral, pack_stats, configured, tmp_files>>

\* processing.py 84-111 and app.py 1103-1108: the answer to one GET
poll_status(t, resp) ==
  /\ tasks[t].pc = "poll"
  /\ calls' = [calls EXCEPT ![t].code = poll_code(resp),
                            ![t].job = resp.job,
                            ![t].out = resp.out,
                            ![t].url = IF poll_code(resp) = "ok"
                                       THEN pick_video_url(resp.out).val ELSE <<>>]
  /\ IF poll_code(resp) = "none"
     THEN /\ tasks' = [tasks EXCEPT ![t].pc = "sleep"]
          /\ UNCHANGED <<ledger, gen_success, gen_fail, sem>>
     ELSE IF poll_code(resp) = "ok"
     THEN /\ gen_success' = gen_success + 1
          /\ sem_value' = release_value
          /\ sem_waiters' = release_waiters
          /\ tasks' = release_tasks([tasks EXCEPT ![t].pc = "download"])
          /\ UNCHANGED <<ledger, gen_fail>>
     ELSE /\ result_not_ok(t)
          /\ sem_value' = release_value
          /\ sem_waiters' = release_waiters
          /\ tasks' = release_tasks([tasks EXCEPT ![t].pc = "notify_fail"])
  /\ Observe(t)
  /\ UNCHANGED <<updates, unfunded, standalone>>
  /\ UNCHANGED <<TEST_MODE, session, referral, pack_stats, configured, tmp_files>>

\* the program with or without its Replicate settings
InitRender ==
  /\ user_credits = [i \in Ids |-> 0]
  /\ usage = [i \in {} |-> 0]
  /\ total = 0
  /\ TEST_MODE = FALSE
  /\ pending_photo = [u \in Users |-> NoFile]
  /\ pending_choice = [u \in Users |-> "none"]
  /\ ref_inviter = [u \in Users |-> NoInviter]
  /\ ref_count = [i \in Ids |-> 0]
  /\ ref_stars_balance = [i \in Ids |-> 0]
  /\ pack_stats = [k \in PackKeys |-> 0]
  /\ gen_success = 0
  /\ gen_fail = 0
  /\ configured \in BOOLEAN
  /\ sem_value = ANIMATE_CONCURRENCY
  /\ sem_waiters = <<>>
  /\ tmp_files = {}
  /\ tasks = [t \in Tasks |-> IdleTask]
  /\ charged = [t \in Tasks |-> NoCharge]
  /\ updates = 0
  /\ unfunded = {}
  /\ calls = [t \in Tasks |-> NoCall]
  /\ db_users = [i \in {} |-> 0]
  /\ clock = 0
  /\ frame = NoFrame

\* one step of handler t, whatever the answer it gets
RenderStep(t) ==
  \/ \E r \in {"none", "status", "get_file"} : begin_render(t, r)
  \/ \E resp \in PostResponses : create_prediction(t, resp)
  \/ poll_sleep(t)
  \/ \E resp \in GetResponses : poll_status(t, resp)
  \/ \E r \in BOOLEAN : notify_fail(t, r)
  \/ \E o \in {"ok", "http_error", "stream_error"} : download(t, o)
  \/ \E r \in BOOLEAN : deliver(t, r)

NextRender ==
  \/ \E u \in Users, f \in FileIds : on_photo(u, f, TRUE)
  \/ \E u \in Users : on_confirm_ok(u)
  \/ \E t \in Tasks : RenderStep(t)

SpecRender == InitRender /\ [][NextRender]_vars

\* the event loop resumes every handler whose awaited call has returned, and
\* every request returns or raises
FairRender == Init /\ [][NextRender]_vars /\ \A t \in Tasks : WF_vars(RenderStep(t))

\* ------------------------------------- _pick_video_url, applied directly

\* what a list of the provider can hold
Elements == {Str(Mp4Url), Str(GifUrl), Str(PngUrl), Str(<<>>), Num, Null}

\* the values data.get("output") is tried with: every list of up to MaxItems
\* elements, every single element, and dicts
PickInputs ==
  {List(s) : s \in UNION {[1..n -> Elements] : n \in 0..MaxItems}}
  \cup Elements
  \cup {Dict([video |-> Num, other |-> Str(Mp4Url)]), Dict([result |-> Str(Mp4Url)]),
        Dict([output |-> Str(GifUrl), result |-> Str(PngUrl)])}

InitPick ==
  /\ AppStart
  /\ db_users = [i \in {} |-> 0]
  /\ clock = 0
  /\ frame \in {[fn |-> "none", arg |-> out, ret |-> Null] : out \in PickInputs}

\* url = _pick_video_url(out)
call_pick_video_url ==
  /\ frame.fn = "none"
  /\ frame' = [fn |-> "_pick_video_url", arg |-> frame.arg,
               ret |-> pick_video_url(frame.arg)]
  /\ UNCHANGED <<program, updates, unfunded, calls, db_users, clock>>

SpecPick == InitPick /\ [][call_pick_video_url]_vars

\* ------------------------------------------------------- cancellation

\* asyncio cancels the task of a handler at the await it is suspended in (on
\* shutdown asyncio.run cancels every task that is left).  CancelledError is a
\* BaseException: neither the except branches of processing.py 101-111 nor the
\* one of app.py 1142 catch it, `async with _SEM` lets it through.

\* mutant: the cancelled acquirer stays in the queue
cancelled_waiters_kept(t) == sem_waiters

\* Semaphore.acquire, cancelled while it waits: the waiter leaves the queue
cancelled_waiters(t) == SelectSeq(sem_waiters, LAMBDA w : w # t)

cancel(t) ==
  /\ tasks[t].pc \in {"status", "sem_wait", "submit", "poll", "notify_fail",
                      "download", "deliver"}
  /\ IF tasks[t].pc = "sem_wait"
     THEN /\ sem_waiters' = cancelled_waiters(t)
          /\ tasks' = [tasks EXCEPT ![t] = Finished(t, "cancelled_in_acquire")]
          /\ UNCHANGED sem_value
     ELSE IF tasks[t].pc \in {"submit", "poll"}
     THEN /\ sem_value' = release_value
          /\ sem_waiters' = release_waiters
          /\ tasks' = release_tasks([tasks EXCEPT ![t] = Finished(t, "cancelled_in_call")])
     ELSE /\ tasks' = [tasks EXCEPT ![t] = Finished(t, "cancelled")]
          /\ UNCHANGED sem
  /\ UNCHANGED <<ledger, gen_success, gen_fail>>
  /\ Observe(t)
  /\ UNCHANGED <<updates, unfunded, calls, standalone>>
  /\ UNCHANGED <<TEST_MODE, session, referral, pack_stats, configured, tmp_files>>

NextCancel ==
  \/ \E u \in Users, f \in FileIds : on_photo(u, f, TRUE)
  \/ \E u \in Users : on_confirm_ok(u)
  \/ \E u \in Users : on_payment(u, "pack_1", PACKS["pack_1"].amount)
  \/ \E t \in Tasks, r \in {"none", "status", "get_file"} : after_status(t, r)
  \/ \E t \in Tasks, r \in {"created", "other"} : submit(t, r)
  \/ \E t \in Tasks, r \in {"processing", "succeeded_url", "failed"} : poll(t, r)
  \/ \E t \in Tasks, r \in BOOLEAN : notify_fail(t, r)
  \/ \E t \in Tasks, o \in {"ok", "http_error", "stream_error"} : download(t, o)
  \/ \E t \in Tasks, r \in BOOLEAN : deliver(t, r)
  \/ \E t \in Tasks : cancel(t)

SpecCancel == Init /\ [][NextCancel]_vars

\* ------------------------------------------------ payments/stars_v3.py

\* PACKS of stars_v3.py (title dropped); a key without "unlimited" has it FALSE
STARS_PACKS ==
  [buy_1 |-> [stars |-> 150, credits |-> 1, unlimited |-> FALSE],
   buy_5 |-> [stars |-> 600, credits |-> 5, unlimited |-> FALSE],
   buy_day |-> [stars |-> 1200, credits |-> 0, unlimited |-> TRUE]]

\* a row as INSERT INTO users(user_id) makes it: every column at its default
NewRow == [credits |-> 0, stars_topup_total |-> 0, day_unlimited_until |-> 0]

\* table users after _get_user(user_id): a missing row is inserted
get_user(table, user_id) ==
  IF user_id \in DOMAIN table THEN table ELSE table @@ (user_id :> NewRow)

\* table users after add_credits
add_credits(table, user_id, amount, stars_paid) ==
  [get_user(table, user_id) EXCEPT ![user_id].credits = @ + amount,
                                   ![user_id].stars_topup_total = @ + stars_paid]

\* table users after set_unlimited_day: an UPDATE, which changes no row when
\* the user has none; the clock counts days, hours are a multiple of 24
set_unlimited_day(table, user_id, hours) ==
  IF user_id \in DOMAIN table
  THEN [table EXCEPT ![user_id].day_unlimited_until = clock + hours \div 24]
  ELSE table

\* what has_unlimited returns (it leaves the table as _get_user does)
has_unlimited(table, user_id) ==
  clock < get_user(table, user_id)[user_id].day_unlimited_until

\* mutant: the credit is taken without looking at the balance
spend_credit_unchecked(user_id) ==
  /\ db_users' = IF has_unlimited(db_users, user_id)
                 THEN get_user(db_users, user_id)
                 ELSE [get_user(db_users, user_id) EXCEPT ![user_id].credits = @ - 1]
  /\ frame' = [fn |-> "spend_credit", arg |-> user_id, ret |-> TRUE]
  /\ received
  /\ UNCHANGED <<program, unfunded, calls, clock>>

\* spend_credit, called for one more update
spend_credit(user_id) ==
  /\ LET table == get_user(db_users, user_id)
     IN IF has_unlimited(db_users, user_id)
        THEN /\ db_users' = table
             /\ frame' = [fn |-> "spend_credit", arg |-> user_id, ret |-> TRUE]
        ELSE IF table[user_id].credits > 0
        THEN /\ db_users' = [table EXCEPT ![user_id].credits = @ - 1]
             /\ frame' = [fn |-> "spend_credit", arg |-> user_id, ret |-> TRUE]
        ELSE /\ db_users' = table
             /\ frame' = [fn |-> "spend_credit", arg |-> user_id, ret |-> FALSE]
  /\ received
  /\ UNCHANGED <<program, unfunded, calls, clock>>

\* cmd_balance and cb_balance: get_balance, then has_unlimited
cmd_balance(user_id) ==
  /\ db_users' = get_user(db_users, user_id)
  /\ frame' = [fn |-> "cmd_balance", arg |-> user_id,
               ret |-> get_user(db_users, user_id)[user_id].credits]
  /\ received
  /\ UNCHANGED <<program, unfunded, calls, clock>>

\* on_successful_payment: pack_key is the middle part of the payload, "bad"
\* stands for a payload that does not split in three or names no pack
on_successful_payment(user_id, pack_key) ==
  /\ LET pack == IF pack_key \in DOMAIN STARS_PACKS
                 THEN STARS_PACKS[pack_key] ELSE STARS_PACKS["buy_1"]
     IN db_users' = IF pack.unlimited
                    THEN set_unlimited_day(db_users, user_id, 24)
                    ELSE add_credits(db_users, user_id, pack.credits, pack.stars)
  /\ frame' = [fn |-> "on_successful_payment", arg |-> user_id, ret |-> pack_key]
  /\ received
  /\ UNCHANGED <<program, unfunded, calls, clock>>

\* a day passes
tick ==
  /\ clock < MaxClock
  /\ clock' = clock + 1
  /\ UNCHANGED <<program, updates, unfunded, calls, db_users, frame>>

NextStars ==
  \/ \E u \in Users : spend_credit(u)
  \/ \E u \in Users : cmd_balance(u)
  \/ \E u \in Users, k \in {"buy_1", "buy_5", "buy_day", "bad"} :
       on_successful_payment(u, k)
  \/ tick

SpecStars == Init /\ [][NextStars]_vars

\* ------------------------------------------- referrals and payments only

\* /start with every payload (ref_0 and the user's own id included) and the
\* payments that read the binding
NextReferral ==
  \/ \E u \in Users, i \in Ids \cup {NoInviter} : on_start(u, i)
  \/ \E u \in Users, k \in {"pack_1", "pack_10"} : on_payment(u, k, PACKS[k].amount)
  \/ \E u \in Users : on_payment(u, "unknown", 60)

SpecReferral == Init /\ [][NextReferral]_vars

\* --------------------------------------------- referral links, more users

Guests == 1..MaxGuests
GuestIds == {0} \cup Guests

\* the program once imported, its dicts indexed by the guests
InitInvite ==
  /\ user_credits = [i \in GuestIds |-> 0]
  /\ usage = [i \in {} |-> 0]
  /\ total = 0
  /\ TEST_MODE = FALSE
  /\ pending_photo = [u \in Users |-> NoFile]
  /\ pending_choice = [u \in Users |-> "none"]
  /\ ref_inviter = [u \in Guests |-> NoInviter]
  /\ ref_count = [i \in GuestIds |-> 0]
  /\ ref_stars_balance = [i \in GuestIds |-> 0]
  /\ pack_stats = [k \in PackKeys |-> 0]
  /\ gen_success = 0
  /\ gen_fail = 0
  /\ configured = TRUE
  /\ sem_value = ANIMATE_CONCURRENCY
  /\ sem_waiters = <<>>
  /\ tmp_files = {}
  /\ tasks = [t \in Tasks |-> IdleTask]
  /\ charged = [t \in Tasks |-> NoCharge]
  /\ updates = 0
  /\ unfunded = {}
  /\ calls = [t \in Tasks |-> NoCall]
  /\ db_users = [i \in {} |-> 0]
  /\ clock = 0
  /\ frame = NoFrame

\* /start ref_<i> from every guest, with every id and without payload
NextInvite == \E u \in Guests, i \in GuestIds \cup {NoInviter} : on_start(u, i)

SpecInvite == InitInvite /\ [][NextInvite]_vars

\* ---------------------------------------------- limiter.py: the counts

\* FreeUsageLimiter.users_count: len(self._usage), the keys of the defaultdict
users_count == Cardinality(DOMAIN usage)

\* ------------------------------------------------------------ claims

Failed(t) == tasks[t].pc \in {"notify_fail", "failed", "aborted"}
Done(t) == tasks[t].pc = "done"
\* the handler has got its permit: it is at the provider or past it
AtProvider(t) == tasks[t].pc \in {"submit", "poll", "download", "deliver"}
Debits(c) == c.paid + c.free

\* C1: a render that ends in failure (result not ok, or get_file, download_file,
\* send_video or send_message raised) has changed neither the paid credits nor
\* the free-usage counts.
C1_FailureNeverCharges == \A t \in Tasks : Failed(t) => charged[t] = NoCharge

\* a render that the provider completed and that failed afterwards, for a user
\* holding a credit
C1_Witness ==
  \E t \in Tasks :
    /\ tasks[t].pc = "failed" /\ tasks[t].had_paid
    /\ gen_success = 1 /\ gen_fail = 1
    /\ user_credits[tasks[t].uid] > 0
    /\ \A s \in Tasks \ {t} : tasks[s].pc = "idle"

\* C2: no paid credit balance is ever negative.
C2_CreditsNonNegative == \A i \in Ids : user_credits[i] >= 0

\* a render took the last credit of its user
C2_Witness ==
  \E t \in Tasks :
    Done(t) /\ charged[t].paid = 1 /\ user_credits[tasks[t].uid] = 0

\* C3 (as claimed): the renders of a user (other than the admin) that were
\* started on paid credits and are at the provider or past it never outnumber
\* the paid credits of that user: of the concurrent requests of a user with c
\* credits at most c are admitted.
C3_AdmittedWithinCredits ==
  \A u \in Users \ {ADMIN_USER_ID} :
    Cardinality({t \in Tasks : tasks[t].uid = u /\ tasks[t].had_paid /\ AtProvider(t)})
      <= user_credits[u]

\* C4 (as claimed): a delivered render that was debited was debited from the
\* source its handler recorded when it started (had_paid).
C4_DebitFromRecordedSource ==
  \A t \in Tasks :
    Done(t) /\ charged[t] # NoCharge =>
      charged[t] = IF tasks[t].had_paid THEN [paid |-> 1, free |-> 0]
                   ELSE [paid |-> 0, free |-> 1]

\* C5: a render debits at most once, one credit or one free use and only when it
\* was delivered; the decrements of paid credits never outnumber the delivered
\* renders.
C5_AtMostOneDebitPerSuccess ==
  /\ \A t \in Tasks :
       /\ charged[t].paid \in {0, 1} /\ charged[t].free \in {0, 1}
       /\ Debits(charged[t]) <= 1
       /\ Debits(charged[t]) = 1 => Done(t)
  /\ Cardinality({t \in Tasks : charged[t].paid > 0})
       <= Cardinality({t \in Tasks : Done(t)})

\* two delivered renders, one debit each
C5_Witness ==
  \E t1, t2 \in Tasks :
    /\ t1 # t2 /\ Done(t1) /\ Done(t2)
    /\ Debits(charged[t1]) = 1 /\ Debits(charged[t2]) = 1

C7_AdmissionChargeNeutral ==
  [][(\A t \in Tasks : ~(tasks[t].pc = "deliver" /\ tasks'[t].pc = "done"))
     => /\ \A i \in Ids : user_credits'[i] >= user_credits[i]
        /\ \A i \in Ids : used_count(usage', i) = used_count(usage, i)
        /\ total' = total]_vars

\* can_use has run for two users and no render was ever delivered
C7_Witness ==
  /\ DOMAIN usage = Users
  /\ \A u \in Users : usage[u] = 0
  /\ \A t \in Tasks : ~Done(t)

C9_FreeUsageWithinQuota ==
  \A u \in DOMAIN usage : usage[u] <= MAX_FREE_ANIMS_PER_USER

\* C10 (as claimed): a render started with paid credits never takes from the
\* free quota, a render started without never takes a paid credit, and a user
\* with neither has nothing admitted.
C10_FundingPriority ==
  /\ \A t \in Tasks : tasks[t].had_paid => charged[t].free = 0
  /\ \A t \in Tasks : tasks[t].pc # "idle" /\ ~tasks[t].had_paid => charged[t].paid = 0
  /\ \A u \in Users \ {ADMIN_USER_ID} : Exhausted(u) => pending_photo[u] = NoFile

\* C18 (as claimed): no POST to the provider is issued by a handler whose user
\* had, when the handler started, no paid credits, a used-up free quota and no
\* test exemption.
C18_NoSubmitWhenExhausted == \A t \in unfunded : tasks[t].pc # "submit"

\* the calls inside `async with _SEM`: between the POST and the end of polling
Holding == {t \in Tasks : tasks[t].pc \in {"submit", "sleep", "poll"}}

\* C11: at no time are more than ANIMATE_CONCURRENCY calls inside
\* `async with _SEM`.
C11_SchedulerBound == Cardinality(Holding) <= ANIMATE_CONCURRENCY

\* one call holds the permit and polls, another waits for it
C11_Witness ==
  \E t1, t2 \in Tasks :
    /\ tasks[t1].pc = "poll" /\ tasks[t2].pc = "sem_wait"
    /\ sem_waiters = <<t2>>

C13_TimeoutEndsRender ==
  \A t \in Tasks :
    tasks[t].pc \in {"sleep", "poll"} => calls[t].elapsed <= ANIMATE_TIMEOUT

\* C14 (as claimed): a call that waits for a permit is eventually granted one.
C14_NoStarvation ==
  \A t \in Tasks : (tasks[t].pc = "sem_wait") ~> (tasks[t].pc # "sem_wait")

\* C15 (as claimed): a POST answered with 401 or 403 ends the call with the
\* code replicate_auth.
C15_AuthMapped ==
  \A t \in Tasks : calls[t].status \in {401, 403} => calls[t].code = "replicate_auth"

\* C16: a POST answered 402 ends the call with replicate_402, one answered 422
\* with replicate_422_fields and a list of field names that may be empty, any
\* other status outside 200/201 with replicate_create; none of these is ok and
\* none was polled.
C16_SubmitStatusMapping ==
  \A t \in Tasks :
    LET c == calls[t]
    IN /\ c.status = 402 => c.code = "replicate_402"
       /\ c.status = 422 => c.code = "replicate_422_fields"
       /\ c.status \notin {0, 200, 201, 402, 422} => c.code = "replicate_create"
       /\ c.fields # <<>> => c.code = "replicate_422_fields"
       /\ \A i \in DOMAIN c.fields :
            c.fields[i] \in {"face_image", "driving_video", "image", "prompt"}
       /\ c.status # 0 => /\ c.code \notin {"ok", "none"}
                           /\ c.elapsed = 0 /\ c.posts = 1
                           /\ tasks[t].pc = "notify_fail"

\* a 422 without a field name in its body, and a 402, both returned as failures
C16_Witness ==
  \E t1, t2 \in Tasks :
    /\ calls[t1].status = 422 /\ calls[t1].fields = <<>>
    /\ calls[t2].status = 402
    /\ tasks[t1].pc = "notify_fail" /\ tasks[t2].pc = "notify_fail"

\* C17: without the Replicate settings a call returns the config error having
\* sent nothing and without touching the semaphore, and no call ever gets
\* further than that.
C17_ConfigFailsFast ==
  /\ \A t \in Tasks :
       calls[t].code = "config" =>
         /\ ~configured /\ calls[t].posts = 0 /\ calls[t].elapsed = 0
         /\ tasks[t].pc = "notify_fail"
  /\ ~configured =>
       /\ sem_value = ANIMATE_CONCURRENCY /\ sem_waiters = <<>>
       /\ \A t \in Tasks :
            /\ tasks[t].pc \in {"idle", "status", "notify_fail", "failed", "aborted"}
            /\ calls[t].posts = 0
            /\ tasks[t].pc = "notify_fail" => calls[t].code = "config"

\* two calls without settings: one has returned the config error, the handler
\* of the other has ended
C17_Witness ==
  \E t1, t2 \in Tasks :
    /\ calls[t1].code = "config" /\ tasks[t2].pc = "failed" /\ gen_fail = 2

\* the deployment names a fallback model (processing.py reads no such setting)
FallbackConfigured == TRUE

\* C19 (as claimed): with a fallback model configured, a call whose POST was
\* answered 402 has sent a second POST before it gives up; no call sends more
\* than two.
C19_FallbackRetry ==
  \A t \in Tasks :
    /\ calls[t].posts <= 2
    /\ FallbackConfigured /\ calls[t].code = "replicate_402" => calls[t].posts = 2

\* the outputs the claim lists: null, the empty string, a list without a
\* string, a dict without a string under video, result or output
NoArtifact(out) ==
  \/ out = Null
  \/ out = Str(<<>>)
  \/ out.type = "list" /\ \A i \in DOMAIN out.items : out.items[i].type # "str"
  \/ out.type = "dict" /\ \A k \in {"video", "result", "output"} :
                            k \in DOMAIN out.map => out.map[k].type # "str"

\* C20: a call whose job succeeded with such an output returns
\* replicate_no_output, which is not ok, and its handler debits nothing.
C20_NoOutputIsFailure ==
  \A t \in Tasks :
    /\ calls[t].job = "succeeded" /\ NoArtifact(calls[t].out)
         => calls[t].code = "replicate_no_output"
    /\ calls[t].code = "replicate_no_output"
         => tasks[t].pc = "notify_fail" /\ charged[t] = NoCharge
    /\ tasks[t].pc \in {"notify_fail", "failed"} => charged[t] = NoCharge

\* a job that succeeded with a list of non-strings, for a user whose other
\* render was delivered and debited
C20_Witness ==
  \E t1, t2 \in Tasks :
    /\ calls[t1].job = "succeeded" /\ calls[t1].out = List(<<Num, Null>>)
    /\ calls[t1].code = "replicate_no_output"
    /\ tasks[t2].pc = "done" /\ charged[t2] # NoCharge
    /\ tasks[t1].uid = tasks[t2].uid

\* C21: _pick_video_url returns a string output as it is; of a list it returns
\* the first element that is a string ending in .mp4 or .gif, without one the
\* first element that is a string, and without a string None.
C21_PickPriority ==
  frame.fn = "_pick_video_url" =>
    LET out == frame.arg
        items == out.items
        clips == {i \in DOMAIN items :
                    /\ items[i].type = "str"
                    /\ \/ EndsWith(items[i].val, <<".", "m", "p", "4">>)
                       \/ EndsWith(items[i].val, <<".", "g", "i", "f">>)}
        strs == {i \in DOMAIN items : items[i].type = "str"}
        least(S) == CHOOSE i \in S : \A j \in S : i <= j
    IN /\ out.type = "str" => frame.ret = out
       /\ out.type = "list" /\ clips # {} => frame.ret = items[least(clips)]
       /\ out.type = "list" /\ clips = {} /\ strs # {} => frame.ret = items[least(strs)]
       /\ out.type = "list" /\ strs = {} => frame.ret = Null

\* the list ["c.png", "a.mp4"] gave the .mp4 entry
C21_Witness ==
  /\ frame.fn = "_pick_video_url"
  /\ frame.arg = List(<<Str(PngUrl), Str(Mp4Url)>>)
  /\ frame.ret = Str(Mp4Url)

Terminal == {"succeeded", "failed", "canceled"}

\* C22: a call polls only after its one POST was answered 200 or 201 with a
\* poll URL; a GET that reports a status other than succeeded, failed or
\* canceled is followed by another round of the loop; and once one of these
\* three was reported the call has returned and sends no further GET.
C22_JobStateMachine ==
  /\ [](\A t \in Tasks :
          /\ tasks[t].pc \in {"sleep", "poll"} =>
               /\ calls[t].get_url /\ calls[t].posts = 1
               /\ calls[t].job \notin Terminal
          /\ calls[t].job \in Terminal =>
               /\ tasks[t].pc \in {"notify_fail", "download"}
               /\ calls[t].code \in {"ok", "replicate_no_output", "replicate_status"})
  /\ [][\A t \in Tasks :
          /\ (tasks[t].pc = "poll" /\ tasks'[t].pc # "poll"
              /\ calls'[t].job \in {"starting", "processing"})
             => tasks'[t].pc = "sleep"
          /\ (tasks[t].pc = "submit" /\ tasks'[t].pc = "sleep") => calls'[t].get_url
          /\ tasks'[t].pc = "poll" /\ tasks[t].pc # "poll"
             => tasks[t].pc = "sleep" /\ calls[t].job \notin Terminal]_vars

\* a job was reported processing, polled again and then reported canceled
C22_Witness ==
  \E t \in Tasks :
    /\ calls[t].job = "canceled" /\ calls[t].elapsed = 2
    /\ calls[t].code = "replicate_status" /\ tasks[t].pc = "notify_fail"

\* C23 (as claimed): a temporary artifact file exists only while the handler
\* that created it is between download_file and the end of its delivery; no
\* file is left once that handler has ended.
C23_NoTmpFileOutlives ==
  tmp_files \subseteq {tasks[t].file_id : t \in {s \in Tasks : tasks[s].pc = "deliver"}}

\* C24: a handler cancelled while it waits for a permit leaves the queue and
\* holds no permit, one cancelled during the POST or the polling gives its
\* permit back; in both cases the cancellation leaves the handler without
\* passing through its failure branches (no counter moves), and the cancelled
\* handler has debited neither a credit nor a free use.
C24_CancelReleasesAndNeverCharges ==
  /\ [](/\ sem_value + Cardinality({t \in Tasks : tasks[t].pc \in {"submit", "poll"}})
             = ANIMATE_CONCURRENCY
        /\ sem_waiters # <<>> => sem_value = 0
        /\ \A t \in Tasks :
             /\ tasks[t].pc = "sem_wait" <=>
                  \E i \in DOMAIN sem_waiters : sem_waiters[i] = t
             /\ tasks[t].pc \in {"cancelled_in_acquire", "cancelled_in_call", "cancelled"}
                  => charged[t] = NoCharge)
  /\ [][\A t \in Tasks :
          (tasks'[t].pc \in {"cancelled_in_acquire", "cancelled_in_call"}
           /\ tasks[t].pc # tasks'[t].pc)
          => /\ UNCHANGED <<ledger, gen_success, gen_fail, session>>
             /\ tasks[t].pc = "sem_wait" =>
                  /\ tasks'[t].pc = "cancelled_in_acquire"
                  /\ sem_value' = sem_value /\ Len(sem_waiters') = Len(sem_waiters) - 1
             /\ tasks[t].pc \in {"submit", "poll"} =>
                  /\ tasks'[t].pc = "cancelled_in_call"
                  /\ \/ sem_value' = sem_value + 1 /\ sem_waiters = <<>>
                     \/ /\ sem_value' = sem_value /\ sem_waiters # <<>>
                        /\ tasks'[Head(sem_waiters)].pc = "submit"]_vars

\* a paying user's two renders were cancelled, one in the queue and one while
\* it polled; the permit is free and the credit is still there
C24_Witness ==
  \E t1, t2 \in Tasks :
    /\ tasks[t1].pc = "cancelled_in_acquire" /\ tasks[t2].pc = "cancelled_in_call"
    /\ tasks[t1].had_paid /\ tasks[t2].had_paid /\ tasks[t1].uid = tasks[t2].uid
    /\ user_credits[tasks[t1].uid] = 1
    /\ sem_value = ANIMATE_CONCURRENCY /\ sem_waiters = <<>>

\* C25: a handler starts its download in the step in which its provider call
\* returned ok and gave its permit back; while it downloads it is outside
\* `async with _SEM`, its poll periods no longer count, and the step that ends
\* the download, however it ends, leaves the semaphore as it was.
C25_DownloadOutsidePermit ==
  /\ [](/\ sem_value + Cardinality(Holding) = ANIMATE_CONCURRENCY
        /\ \A t \in Tasks :
             tasks[t].pc = "download" =>
               calls[t].code = "ok" /\ calls[t].job = "succeeded")
  /\ [][\A t \in Tasks :
          /\ (tasks'[t].pc = "download" /\ tasks[t].pc # "download")
             => /\ tasks[t].pc = "poll"
                /\ \/ sem_value' = sem_value + 1 /\ sem_waiters = <<>>
                   \/ /\ sem_value' = sem_value /\ sem_waiters # <<>>
                      /\ sem_waiters' = Tail(sem_waiters)
                      /\ tasks'[Head(sem_waiters)].pc = "submit"
          /\ (tasks[t].pc = "download" /\ tasks'[t].pc = "download")
             => calls'[t].elapsed = calls[t].elapsed
          /\ (tasks[t].pc = "download" /\ tasks'[t].pc # "download")
             => sem_value' = sem_value /\ sem_waiters' = sem_waiters]_vars

\* one handler downloads while another holds the only permit and polls
C25_Witness ==
  \E t1, t2 \in Tasks :
    /\ tasks[t1].pc = "download" /\ tasks[t2].pc = "poll"
    /\ calls[t2].elapsed = 2 /\ sem_value = 0

\* the columns of a user's row, the defaults when there is no row
RowOf(table, u) == IF u \in DOMAIN table THEN table[u] ELSE NewRow

\* C26: spend_credit(u) returns True and leaves the credits alone while the
\* unlimited window of u is open; otherwise with credits > 0 it takes exactly
\* one and returns True; otherwise it returns False and the columns of u keep
\* their values; no other row changes, and credits are never negative.
C26_SpendCredit ==
  /\ [](\A u \in DOMAIN db_users : db_users[u].credits >= 0)
  /\ [][\A u \in Users :
          (frame'.fn = "spend_credit" /\ frame'.arg = u /\ updates' # updates)
          => LET row == RowOf(db_users, u)
                 after == RowOf(db_users', u)
             IN /\ IF clock < row.day_unlimited_until
                   THEN frame'.ret = TRUE /\ after = row
                   ELSE IF row.credits > 0
                   THEN /\ frame'.ret = TRUE
                        /\ after = [row EXCEPT !.credits = @ - 1]
                   ELSE frame'.ret = FALSE /\ after = row
                /\ \A v \in Users \ {u} : RowOf(db_users', v) = RowOf(db_users, v)]_vars

\* spend_credit has just returned True for a user inside the unlimited window,
\* whose credit is still there
C26_Witness ==
  /\ frame.fn = "spend_credit" /\ frame.ret = TRUE
  /\ frame.arg \in DOMAIN db_users
  /\ clock < db_users[frame.arg].day_unlimited_until
  /\ db_users[frame.arg].credits = 1

\* C27 (as claimed): when on_successful_payment has handled a payment of the
\* pack buy_day, has_unlimited is true for the payer, with or without a row
\* before the payment.
C27_UnlimitedAfterPayment ==
  [][\A u \in Users :
       (frame'.fn = "on_successful_payment" /\ frame'.arg = u
        /\ frame'.ret = "buy_day" /\ updates' # updates)
       => clock' < RowOf(db_users', u).day_unlimited_until]_vars

\* C28: with TEST_MODE on, on_photo accepts every photo of the admin, and the
\* step that completes a delivery for the admin changes neither credits nor
\* the free-usage counters.  For any other user, and for the admin with
\* TEST_MODE off, on_photo accepts a photo exactly when the user has a credit
\* or a free use left, and a completed delivery makes its one debit.
C28_TestModeAdminOnly ==
  [][/\ \A u \in Users, f \in FileIds, o \in BOOLEAN :
          on_photo(u, f, o) =>
            IF (TEST_MODE /\ u = ADMIN_USER_ID)
               \/ user_credits[u] > 0
               \/ used_count(usage, u) < MAX_FREE_ANIMS_PER_USER
            THEN pending_photo'[u] = f
            ELSE UNCHANGED <<pending_photo, pending_choice>>
     /\ \A t \in Tasks :
          (tasks[t].pc = "deliver" /\ tasks'[t].pc = "done") =>
            IF TEST_MODE /\ tasks[t].uid = ADMIN_USER_ID
            THEN UNCHANGED <<user_credits, total>>
                 /\ \A i \in Ids : used_count(usage', i) = used_count(usage, i)
            ELSE Debits(charged'[t]) = 1 /\ Debits(charged[t]) = 0]_vars

\* in test mode a render was delivered to the admin, whose free quota was used
\* up before and who has no credits: nothing was debited
C28_Witness ==
  \E t \in Tasks :
    /\ Done(t) /\ tasks[t].uid = ADMIN_USER_ID /\ TEST_MODE
    /\ charged[t] = NoCharge
    /\ user_credits[ADMIN_USER_ID] = 0
    /\ used_count(usage, ADMIN_USER_ID) = MAX_FREE_ANIMS_PER_USER
    /\ pending_photo[ADMIN_USER_ID] = NoFile

\* C29: every step that changes TEST_MODE is on_admin_action with action
\* test_toggle pressed by the user whose id is ADMIN_USER_ID, and an admin
\* callback or an /admin command of any other user leaves TEST_MODE, the paid
\* credits and the free-usage counters as they were.
C29_OnlyAdminToggles ==
  [][/\ TEST_MODE' # TEST_MODE => on_admin_action(ADMIN_USER_ID, "test_toggle")
     /\ \A u \in Users \ {ADMIN_USER_ID}, a \in {"stats", "users", "test_toggle"} :
          (on_admin_action(u, a) \/ on_admin(u))
          => UNCHANGED <<TEST_MODE, user_credits, usage, total>>]_vars

\* test mode is on, two more updates were handled since and nobody has a
\* photo pending
C29_Witness ==
  /\ TEST_MODE /\ updates = 3
  /\ \A u \in Users : pending_photo[u] = NoFile
  /\ DOMAIN usage = {}

\* C30: no user is ever recorded as their own inviter; a recorded inviter is
\* never replaced or removed; ref_count[i] is always the number of users whose
\* recorded inviter is i, and it only grows, by one, in the step that binds a
\* user to i.
C30_ReferralBinding ==
  /\ [](/\ \A u \in Users : ref_inviter[u] # u
        /\ \A i \in Ids :
             ref_count[i] = Cardinality({u \in Users : ref_inviter[u] = i}))
  /\ [][/\ \A u \in Users :
             ref_inviter[u] # NoInviter => ref_inviter'[u] = ref_inviter[u]
        /\ \A i \in Ids :
             ref_count'[i] # ref_count[i] =>
               /\ ref_count'[i] = ref_count[i] + 1
               /\ \E u \in Users \ {i} :
                    ref_inviter[u] = NoInviter /\ ref_inviter'[u] = i]_vars

\* two users invited each other, and two more /start or payment updates came
\* after that
C30_Witness ==
  /\ ref_inviter[ADMIN_USER_ID] = 2 /\ ref_inviter[2] = ADMIN_USER_ID
  /\ ref_count[ADMIN_USER_ID] = 1 /\ ref_count[2] = 1 /\ ref_count[0] = 0
  /\ updates = 4

\* C31: after any sequence of registrations the credits register_referral has
\* granted to inviter i are ref_count[i] \div 3 (no other handler runs here, so
\* they are the credits of i); a registration grants one credit exactly when
\* it makes the count a multiple of three, and a rejected one (own id, or a
\* user bound already) changes neither a count nor a balance.
C31_ReferralReward ==
  /\ [](\A i \in GuestIds : user_credits[i] = ref_count[i] \div 3)
  /\ [][\A u \in Guests, i \in GuestIds :
          on_start(u, i) =>
            IF u = i \/ ref_inviter[u] # NoInviter
            THEN UNCHANGED <<user_credits, ref_count, ref_inviter>>
            ELSE /\ ref_count' = [ref_count EXCEPT ![i] = @ + 1]
                 /\ user_credits' = [user_credits EXCEPT ![i] =
                                       @ + (IF ref_count'[i] % 3 = 0 THEN 1 ELSE 0)]]_vars

\* three guests followed the link of guest 1, who got one credit, and a fourth
\* registration was turned away
C31_Witness ==
  /\ ref_count[1] = 3 /\ user_credits[1] = 1
  /\ \A u \in Guests \ {1} : ref_inviter[u] = 1
  /\ updates = 4

\* C32 (as claimed): a referral balance is always at least 0 and below 60; a
\* payment of a user who has a recorded inviter i adds the whole part of 5% of
\* the Stars paid to the balance of i, every full 60 of which become one credit
\* of i (60 * credits gained + balance after = balance before + bonus); a
\* payment of a user without inviter changes no referral balance.
C32_StarsConversion ==
  /\ [](\A i \in Ids : 0 <= ref_stars_balance[i] /\ ref_stars_balance[i] < 60)
  /\ [][\A u \in Users, k \in PackKeys :
          on_payment(u, k, PACKS[k].amount) =>
            LET i == ref_inviter[u]
                bonus == (PACKS[k].amount * 5) \div 100
            IN IF i # NoInviter
               THEN /\ 60 * (user_credits'[i] - user_credits[i]) + ref_stars_balance'[i]
                         = ref_stars_balance[i] + bonus
                    /\ \A j \in Ids \ {i} : ref_stars_balance'[j] = ref_stars_balance[j]
               ELSE UNCHANGED ref_stars_balance]_vars

\* C32, what holds: the same for an inviter whose id is not 0; a payment of a
\* user without inviter, or of one bound to the id 0, changes no referral
\* balance and gives nobody but the payer a credit.
C32_StarsConversionNonZero ==
  /\ [](\A i \in Ids : 0 <= ref_stars_balance[i] /\ ref_stars_balance[i] < 60)
  /\ [][\A u \in Users, k \in PackKeys :
          on_payment(u, k, PACKS[k].amount) =>
            LET i == ref_inviter[u]
                bonus == (PACKS[k].amount * 5) \div 100
            IN IF i \notin {NoInviter, 0}
               THEN /\ 60 * (user_credits'[i] - user_credits[i]) + ref_stars_balance'[i]
                         = ref_stars_balance[i] + bonus
                    /\ \A j \in Ids \ {i} : ref_stars_balance'[j] = ref_stars_balance[j]
               ELSE /\ UNCHANGED ref_stars_balance
                    /\ \A j \in Ids \ {u} : user_credits'[j] = user_credits[j]]_vars

\* C33: a payment whose payload is the key of a pack raises the payer's
\* credits by the credits of that pack, exactly, and the counter of that pack
\* by one, the other counters staying; a payment with any other payload
\* changes no credit balance, no counter and no referral balance.
C33_PaymentCredits ==
  [][\A u \in Users :
       /\ \A k \in PackKeys :
            on_payment(u, k, PACKS[k].amount) =>
              /\ user_credits'[u] = user_credits[u] + PACKS[k].credits
              /\ pack_stats' = [pack_stats EXCEPT ![k] = @ + 1]
       /\ on_payment(u, "unknown", 60) =>
            UNCHANGED <<user_credits, pack_stats, ref_stars_balance>>]_vars

\* a user has paid for pack_10 and for pack_1, and a third payment carried an
\* unknown payload
C33_Witness ==
  \E u \in Users :
    /\ user_credits[u] = 11 /\ updates = 3
    /\ pack_stats = [pack_1 |-> 1, pack_3 |-> 0, pack_5 |-> 0, pack_10 |-> 1]
    /\ \A v \in Users : ref_inviter[v] = NoInviter

\* C34 (as claimed): users_count() is the number of users with at least one
\* mark_used; a can_use for a user who never used the service leaves it as it
\* was.
C34_UsersCount ==
  users_count = Cardinality({u \in Users : used_count(usage, u) > 0})

\* C35: a user has a pending choice only while that user has a pending photo;
\* cancel (with a photo pending) and the step that completes a delivery leave
\* the user with neither; a photo that on_photo accepts replaces the pending
\* photo and leaves no choice but the preset on_photo itself recommends for an
\* old-looking photo.
C35_ChoiceNeedsPhoto ==
  /\ [](\A u \in Users : pending_choice[u] # "none" => pending_photo[u] # NoFile)
  /\ [][/\ \A u \in Users :
             (on_preset(u, "cancel") /\ pending_photo[u] # NoFile)
             => pending_photo'[u] = NoFile /\ pending_choice'[u] = "none"
        /\ \A t \in Tasks :
             (tasks[t].pc = "deliver" /\ tasks'[t].pc = "done")
             => /\ pending_photo'[tasks[t].uid] = NoFile
                /\ pending_choice'[tasks[t].uid] = "none"
        /\ \A u \in Users, f \in FileIds, o \in BOOLEAN :
             on_photo(u, f, o)
             => \/ UNCHANGED <<pending_photo, pending_choice>>
                \/ /\ pending_photo'[u] = f
                   /\ pending_choice'[u] = IF o THEN "preset" ELSE "none"]_vars

\* one user's render was delivered and left nothing pending; the other has a
\* photo pending and has chosen its caption
C35_Witness ==
  \E t \in Tasks, u \in Users :
    /\ Done(t) /\ tasks[t].uid # u
    /\ pending_photo[tasks[t].uid] = NoFile /\ pending_choice[tasks[t].uid] = "none"
    /\ pending_photo[u] # NoFile /\ pending_choice[u] = "caption"

\* C36: the step that completes a delivery leaves the user's pending photo and
\* choice as they are when the pending photo is not the one this render was
\* started from (a photo sent while the render was in flight).
C36_CompletionKeepsNewPhoto ==
  [][\A t \in Tasks :
       (/\ tasks[t].pc = "deliver" /\ tasks'[t].pc = "done"
        /\ pending_photo[tasks[t].uid] # tasks[t].file_id)
       => /\ pending_photo'[tasks[t].uid] = pending_photo[tasks[t].uid]
          /\ pending_choice'[tasks[t].uid] = pending_choice[tasks[t].uid]]_vars

\* C37: when no confirmed render is under way (and none ended before its try
\* block), gen_success is the number of renders that were delivered and
\* gen_success + gen_fail is the number of renders that ended.
C37_OneCountPerAttempt ==
  (\A t \in Tasks : tasks[t].pc \in {"idle", "done", "failed"})
  => /\ gen_success = Cardinality({t \in Tasks : tasks[t].pc = "done"})
     /\ gen_success + gen_fail
          = Cardinality({t \in Tasks : tasks[t].pc \in {"done", "failed"}})

====
